---- MODULE Spec2Model ----
(***************************************************************************)
(* Model of dashboard.py: a one-shot script that downloads a table of      *)
(* daily closes, drops every column holding a missing value, splits off    *)
(* the SPY benchmark, computes per-asset trend distance, volatility and    *)
(* beta, draws three chart panels and prints a screener listing.           *)
(*                                                                         *)
(* Numbers.  A float is a pair <<n, d>>: d > 0 is the rational n/d in      *)
(* lowest terms, <<0,0>> is NaN, <<1,0>> is +inf and <<-1,0>> is -inf.     *)
(* Arithmetic is exact (rounding is not modelled); the IEEE special values *)
(* and their propagation are.  volatility = std * sqrt(252) * 100 is       *)
(* irrational, so a volatility is carried as its square (the radicand of   *)
(* the non-negative root numpy takes), and `Volatility < 25` is decided on *)
(* the squares.                                                            *)
(*                                                                         *)
(* The rendering calls (matplotlib, seaborn) and the positional reads      *)
(* metrics[...][i] are taken to succeed.                                   *)
(***************************************************************************)
EXTENDS Integers, Sequences, FiniteSets, TLC

VARIABLES pc, err, raw, data, spy_data, stock_data, metrics,
          bullish_count, bearish_count, marker_colors, annotated, printed

vars == <<pc, err, raw, data, spy_data, stock_data, metrics,
          bullish_count, bearish_count, marker_colors, annotated, printed>>

----------------------------------------------------------------------------
(* Program constants *)

\* rolling(window=50)
Window == 50
\* np.sqrt(252)
TradingDays == 252
\* ... * 100 (percent), in dist_sma and in volatility
Percent == 100
\* metrics['Distance_SMA'] > 5
TrendFloor == 5
\* metrics['Volatility'] < 25
VolCeiling == 25
\* .head(5)
TopN == 5
\* abs(metrics['Distance_SMA'][i]) > 15
LabelTrend == 15

\* metrics['Beta'][i] > 1.5
LabelBeta == <<3, 2>>

\* The first assets of the tickers list, in its order.
source_tickers == <<"AAPL", "MSFT", "GOOG", "AMZN", "NVDA", "TSLA", "META">>

(* Bounds of the model *)

\* how many assets of source_tickers are requested besides SPY
NAssets == 2
\* tables of 0..MaxShortRows rows (far below the window)
MaxShortRows == 2
\* records of a Metrics Table handed to the screener alone
MaxRecs == 6

\* tickers, after tickers.append("SPY")
tickers == Append(SubSeq(source_tickers, 1, NAssets), "SPY")

----------------------------------------------------------------------------
(* float64 values *)

NaN == <<0, 0>>

Abs(i) == IF i < 0 THEN -i ELSE i
Sgn(i) == IF i < 0 THEN -1 ELSE IF i > 0 THEN 1 ELSE 0

RECURSIVE GCD(_, _)
GCD(a, b) == IF b = 0 THEN a ELSE GCD(b, a % b)

\* n/d (d # 0) in lowest terms with a positive denominator
Rat(n, d) ==
    IF d = 1 THEN <<n, 1>>
    ELSE LET g == GCD(Abs(n), Abs(d))
             s == IF d < 0 THEN -1 ELSE 1
         IN  <<s * (n \div g), s * (d \div g)>>

F(i) == <<i, 1>>

IsNaN(x) == x[2] = 0 /\ x[1] = 0
IsInf(x) == x[2] = 0 /\ x[1] # 0
IsFinite(x) == x[2] > 0

FNeg(x) == <<-x[1], x[2]>>

FAbs(x) == <<Abs(x[1]), x[2]>>

FAdd(x, y) ==
    IF x[2] > 0 /\ y[2] > 0
    THEN IF x[2] = y[2] THEN Rat(x[1] + y[1], x[2])
         ELSE LET g == GCD(x[2], y[2])
              IN  Rat(x[1] * (y[2] \div g) + y[1] * (x[2] \div g),
                      (x[2] \div g) * y[2])
    ELSE IF IsNaN(x) \/ IsNaN(y) THEN NaN
    ELSE IF IsInf(x) /\ IsInf(y) THEN (IF x = y THEN x ELSE NaN)
    ELSE IF IsInf(x) THEN x
    ELSE y

FSub(x, y) == FAdd(x, <<-y[1], y[2]>>)

FMul(x, y) ==
    IF x[2] > 0 /\ y[2] > 0
    THEN IF x[1] = 0 \/ y[1] = 0 THEN <<0, 1>>
         ELSE LET g1 == GCD(Abs(x[1]), y[2])
                  g2 == GCD(Abs(y[1]), x[2])
              IN  <<(x[1] \div g1) * (y[1] \div g2), (x[2] \div g2) * (y[2] \div g1)>>
    ELSE IF IsNaN(x) \/ IsNaN(y) \/ x[1] = 0 \/ y[1] = 0 THEN NaN
    ELSE <<Sgn(x[1]) * Sgn(y[1]), 0>>

\* IEEE division: 0/0 and inf/inf are NaN, x/0 is a signed infinity
FDiv(x, y) ==
    IF x[2] > 0 /\ y[2] > 0 /\ y[1] # 0
    THEN FMul(x, IF y[1] > 0 THEN <<y[2], y[1]>> ELSE <<-y[2], -y[1]>>)
    ELSE IF IsNaN(x) \/ IsNaN(y) THEN NaN
    ELSE IF IsInf(y) THEN (IF IsInf(x) THEN NaN ELSE <<0, 1>>)
    ELSE IF y[1] = 0 THEN (IF x[1] = 0 THEN NaN ELSE <<Sgn(x[1]), 0>>)
    ELSE <<Sgn(x[1]) * Sgn(y[1]), 0>>

\* x < y; every comparison with NaN is False
FLt(x, y) ==
    IF x[2] > 0 /\ y[2] > 0 THEN x[1] * y[2] < y[1] * x[2]
    ELSE IF IsNaN(x) \/ IsNaN(y) THEN FALSE
    ELSE IF IsInf(x) /\ IsInf(y) THEN x[1] < y[1]
    ELSE IF IsInf(x) THEN x[1] < 0
    ELSE y[1] > 0

FGt(x, y) == FLt(y, x)

----------------------------------------------------------------------------
(* Series statistics, as pandas computes them *)

\* the values of s as a tuple, each computed once
Values(s) == SubSeq(s, 1, Len(s))

\* numpy adds pairwise: the sum of s[lo..hi]
RECURSIVE SumRange(_, _, _)
SumRange(s, lo, hi) ==
    IF lo > hi THEN F(0)
    ELSE IF lo = hi THEN s[lo]
    ELSE LET mid == (lo + hi) \div 2
         IN  FAdd(SumRange(s, lo, mid), SumRange(s, mid + 1, hi))

Sum(s) == SumRange(s, 1, Len(s))

NotNaN(x) == ~IsNaN(x)

\* Series.pct_change(): s / s.shift(1) - 1, the first value missing
pct_change(s) ==
    Values([i \in 1..Len(s) |-> IF i = 1 THEN NaN ELSE FSub(FDiv(s[i], s[i - 1]), F(1))])

\* A variance that adds the deviations without squaring them.
var_unsquared(s) ==
    LET v == SelectSeq(s, NotNaN)
        count == Len(v)
        avg == FDiv(Sum(v), F(count))
        sqr == Values([i \in 1..count |-> FSub(avg, v[i])])
    IN  IF count - 1 <= 0 THEN NaN ELSE FDiv(Sum(sqr), F(count - 1))

\* nanops.nanvar(ddof=1): missing values skipped; NaN when count - ddof <= 0
var(s) ==
    LET v == SelectSeq(s, NotNaN)
        count == Len(v)
        avg == FDiv(Sum(v), F(count))
        sqr == Values([i \in 1..count |-> LET dev == FSub(avg, v[i])
                                          IN  FMul(dev, dev)])
    IN  IF count - 1 <= 0 THEN NaN ELSE FDiv(Sum(sqr), F(count - 1))

\* A covariance with ddof=0: the sum of products over N, not N - 1.
cov_population(a, b) ==
    LET idx == SelectSeq([i \in 1..Len(a) |-> i],
                         LAMBDA i : NotNaN(a[i]) /\ i <= Len(b) /\ NotNaN(b[i]))
        N == Len(idx)
        avga == FDiv(Sum(Values([k \in 1..N |-> a[idx[k]]])), F(N))
        avgb == FDiv(Sum(Values([k \in 1..N |-> b[idx[k]]])), F(N))
        prod == Values([k \in 1..N |->
                           FMul(FSub(a[idx[k]], avga), FSub(b[idx[k]], avgb))])
    IN  IF N < 1 THEN NaN ELSE FMul(Sum(prod), FDiv(F(1), F(N)))

\* Series.cov(other): pairs with either value missing are dropped; NaN below
\* min_periods = 1; else np.cov(a, b, ddof=1)[0, 1], whose factor N - ddof is
\* replaced by 0.0 when it is not positive
cov(a, b) ==
    LET idx == SelectSeq([i \in 1..Len(a) |-> i],
                         LAMBDA i : NotNaN(a[i]) /\ i <= Len(b) /\ NotNaN(b[i]))
        N == Len(idx)
        avga == FDiv(Sum(Values([k \in 1..N |-> a[idx[k]]])), F(N))
        avgb == FDiv(Sum(Values([k \in 1..N |-> b[idx[k]]])), F(N))
        prod == Values([k \in 1..N |->
                           FMul(FSub(a[idx[k]], avga), FSub(b[idx[k]], avgb))])
        fact == IF N - 1 <= 0 THEN 0 ELSE N - 1
    IN  IF N < 1 THEN NaN ELSE FMul(Sum(prod), FDiv(F(1), F(fact)))

\* A rolling mean with min_periods=1: the mean of the rows there are.
current_sma_min1(s) ==
    LET n == Len(s)
        w == SubSeq(s, IF n < Window THEN 1 ELSE n - Window + 1, n)
        v == SelectSeq(w, NotNaN)
    IN  FDiv(Sum(v), F(Len(v)))

\* rolling(window=50).mean().iloc[-1]: min_periods = window, so NaN unless the
\* last 50 rows exist and none is missing
current_sma(s) ==
    LET n == Len(s)
        w == SubSeq(s, n - Window + 1, n)
    IN  IF n < Window \/ \E i \in 1..Window : IsNaN(w[i]) THEN NaN
        ELSE FDiv(Sum(w), F(Window))

\* stock_data.iloc[-1], for a table with at least one row
current_price(s) == s[Len(s)]

\* A distance with the operands of the subtraction swapped.
dist_sma_swapped(s) ==
    LET sma == current_sma(s)
    IN  FMul(FDiv(FSub(sma, current_price(s)), sma), F(Percent))

\* ((current_price - current_sma) / current_sma) * 100
dist_sma(s) ==
    LET sma == current_sma(s)
    IN  FMul(FDiv(FSub(current_price(s), sma), sma), F(Percent))

\* daily_returns.std() * np.sqrt(252) * 100 of one column of returns,
\* carried as its square
volatility(returns) ==
    FMul(FMul(var(returns), F(TradingDays)), F(Percent * Percent))

\* one loop iteration: cov / var
beta(returns, spy_returns) ==
    FDiv(cov(returns, spy_returns), var(spy_returns))

----------------------------------------------------------------------------
(* Tables: a sequence of columns [sym, px], px the closes by row *)

Symbols(t) == [i \in 1..Len(t) |-> t[i].sym]

HasColumn(t, s) == \E i \in 1..Len(t) : t[i].sym = s

\* t[s], for a column the table has
ColumnOf(t, s) == t[CHOOSE i \in 1..Len(t) : t[i].sym = s].px

HasMissing(c) == \E i \in 1..Len(c.px) : IsNaN(c.px[i])

Complete(c) == ~HasMissing(c)

\* dropna(axis=1, how='all'): drop only the columns with no value at all.
dropna_all(t) == SelectSeq(t, LAMBDA c : \E i \in 1..Len(c.px) : NotNaN(c.px[i]))

\* data.dropna(axis=1): keep the columns without any missing value
dropna(t) == SelectSeq(t, Complete)

\* data.drop('SPY', axis=1)
drop(t, s) == SelectSeq(t, LAMBDA c : c.sym # s)

----------------------------------------------------------------------------
(* What the download may return *)

\* a few rows, or one row less than, as many as and one more than the window
RowCounts == (0..MaxShortRows) \cup {Window - 1, Window, Window + 1}

\* A column is `from` on every row but the last `tail`, which are `to`; `gap`
\* says which rows are missing: none, the one in the middle, or the leading
\* half (a symbol with a short history).
ColumnKinds ==
    { [from |-> 100, to |-> 100, tail |-> 1, gap |-> "none"],
      [from |-> 100, to |-> 110, tail |-> 1, gap |-> "none"],
      [from |-> 130, to |-> 100, tail |-> 1, gap |-> "none"],
      [from |-> 100, to |-> 110, tail |-> Window, gap |-> "none"],
      [from |-> 100, to |-> 110, tail |-> 1, gap |-> "mid"],
      [from |-> 100, to |-> 110, tail |-> 1, gap |-> "head"] }

\* a symbol the download returns no column for
Absent == [from |-> 0, to |-> 0, tail |-> 0, gap |-> "absent"]

GapRows(k, n) ==
    CASE k.gap = "mid" -> {(n + 1) \div 2}
      [] k.gap = "head" -> 1..((n + 1) \div 2)
      [] OTHER -> {}

Closes(k, n) ==
    Values([i \in 1..n |-> IF i \in GapRows(k, n) THEN NaN
                           ELSE IF i > n - k.tail THEN F(k.to) ELSE F(k.from)])

\* yf.download(tickers, period="1y")['Close']: n rows, and for each requested
\* symbol either no column or a column of closes, some of them missing; the
\* columns are taken in the order of the request
Downloaded(n, pick) ==
    LET got == SelectSeq([i \in 1..Len(tickers) |-> tickers[i]],
                         LAMBDA s : pick[s] # Absent)
    IN  [i \in 1..Len(got) |-> [sym |-> got[i], px |-> Closes(pick[got[i]], n)]]

TickerSet == {tickers[i] : i \in 1..Len(tickers)}

----------------------------------------------------------------------------
(* The metrics frame *)

\* pd.DataFrame({'Ticker': ..., 'Distance_SMA': ..., 'Volatility': ...,
\* 'Beta': ...}).set_index('Ticker'): the four sequences joined by position
MetricsFrame(tk, d, v, b) ==
    [i \in 1..Len(tk) |->
        [Ticker |-> tk[i], Distance_SMA |-> d[i], Volatility |-> v[i], Beta |-> b[i]]]

\* A loop that inserts each beta at the front of the list.
betas_prepended(daily_returns, spy_returns) ==
    [i \in 1..Len(daily_returns) |->
        beta(daily_returns[Len(daily_returns) + 1 - i], spy_returns)]

\* the loop over stock_data.columns appending one beta each
betas(daily_returns, spy_returns) ==
    [i \in 1..Len(daily_returns) |-> beta(daily_returns[i], spy_returns)]

\* lines 40-74 for a table with at least one row
ComputeMetrics(stocks, spy) ==
    LET daily_returns == Values([i \in 1..Len(stocks) |-> pct_change(stocks[i].px)])
        spy_returns == pct_change(spy)
    IN  MetricsFrame(Symbols(stocks),
                     [i \in 1..Len(stocks) |-> dist_sma(stocks[i].px)],
                     [i \in 1..Len(stocks) |-> volatility(daily_returns[i])],
                     betas(daily_returns, spy_returns))

\* metrics['Distance_SMA'] > 0, per record
Bullish(r) == FGt(r.Distance_SMA, F(0))

\* (metrics['Distance_SMA'] > 0).sum()
BullishCount(m) == Cardinality({i \in 1..Len(m) : Bullish(m[i])})

\* '#00ff00' if x > 0 else '#ff0000'
MarkerColor(r) == IF Bullish(r) THEN "#00ff00" ELSE "#ff0000"

\* abs(metrics['Distance_SMA'][i]) > 15 or metrics['Beta'][i] > 1.5
Labelled(r) == FGt(FAbs(r.Distance_SMA), F(LabelTrend)) \/ FGt(r.Beta, LabelBeta)

\* A filter with >= on the trend floor.
Candidate_ge(r) ==
    /\ ~FLt(r.Distance_SMA, F(TrendFloor))
    /\ ~IsNaN(r.Distance_SMA)
    /\ FLt(r.Volatility, F(VolCeiling * VolCeiling))

\* (metrics['Distance_SMA'] > 5) & (metrics['Volatility'] < 25); the
\* volatility is carried as its square and is never negative
Candidate(r) ==
    /\ FGt(r.Distance_SMA, F(TrendFloor))
    /\ FLt(r.Volatility, F(VolCeiling * VolCeiling))

\* sort_values(by='Distance_SMA', ascending=False) of the rows S of m: the
\* default sort kind is not stable, so every descending order of S
RECURSIVE sort_values(_, _)
sort_values(m, S) ==
    IF S = {} THEN {<<>>}
    ELSE UNION { { <<m[i]>> \o t : t \in sort_values(m, S \ {i}) } :
                 i \in {j \in S : \A k \in S :
                           ~FLt(m[j].Distance_SMA, m[k].Distance_SMA)} }

\* .head(5)
head(s) == SubSeq(s, 1, IF Len(s) < TopN THEN Len(s) ELSE TopN)

\* every listing line 137 may print for the frame m
Screened(m) ==
    { head(s) : s \in sort_values(m, {i \in 1..Len(m) : Candidate(m[i])}) }

----------------------------------------------------------------------------
(* The script, statement by statement *)

Init ==
    /\ pc = "download"
    /\ err = "none"
    /\ raw = <<>>
    /\ data = <<>>
    /\ spy_data = <<>>
    /\ stock_data = <<>>
    /\ metrics = <<>>
    /\ bullish_count = 0
    /\ bearish_count = 0
    /\ marker_colors = <<>>
    /\ annotated = <<>>
    /\ printed = <<>>

\* line 27
Download ==
    /\ pc = "download"
    /\ \E n \in RowCounts, pick \in [TickerSet -> ColumnKinds \cup {Absent}] :
          raw' = Downloaded(n, pick)
    /\ pc' = "clean"
    /\ UNCHANGED <<err, data, spy_data, stock_data, metrics, bullish_count,
                   bearish_count, marker_colors, annotated, printed>>

\* line 30
Clean ==
    /\ pc = "clean"
    /\ data' = dropna(raw)
    /\ pc' = "split"
    /\ UNCHANGED <<err, raw, spy_data, stock_data, metrics, bullish_count,
                   bearish_count, marker_colors, annotated, printed>>

\* A split that goes on without the benchmark when its column is gone.
Split_skipping ==
    /\ pc = "split"
    /\ IF HasColumn(data, "SPY")
       THEN /\ spy_data' = ColumnOf(data, "SPY")
            /\ stock_data' = drop(data, "SPY")
       ELSE /\ spy_data' = <<>>
            /\ stock_data' = data
    /\ pc' = "metrics"
    /\ UNCHANGED <<err, raw, data, metrics, bullish_count, bearish_count,
                   marker_colors, annotated, printed>>

\* lines 33-34: data['SPY'] raises KeyError when the column is gone
Split ==
    /\ pc = "split"
    /\ IF HasColumn(data, "SPY")
       THEN /\ spy_data' = ColumnOf(data, "SPY")
            /\ stock_data' = drop(data, "SPY")
            /\ pc' = "metrics"
            /\ err' = err
       ELSE /\ pc' = "aborted"
            /\ err' = "KeyError"
            /\ UNCHANGED <<spy_data, stock_data>>
    /\ UNCHANGED <<raw, data, metrics, bullish_count, bearish_count,
                   marker_colors, annotated, printed>>

\* lines 40-74: stock_data.iloc[-1] raises IndexError on a table without rows
Metrics ==
    /\ pc = "metrics"
    /\ IF Len(spy_data) = 0
       THEN /\ pc' = "aborted"
            /\ err' = "IndexError"
            /\ UNCHANGED metrics
       ELSE /\ metrics' = ComputeMetrics(stock_data, spy_data)
            /\ pc' = "charts"
            /\ err' = err
    /\ UNCHANGED <<raw, data, spy_data, stock_data, bullish_count,
                   bearish_count, marker_colors, annotated, printed>>

\* lines 77-133
Charts ==
    /\ pc = "charts"
    /\ bullish_count' = BullishCount(metrics)
    /\ bearish_count' = Len(metrics) - BullishCount(metrics)
    /\ marker_colors' = [i \in 1..Len(metrics) |-> MarkerColor(metrics[i])]
    /\ annotated' = SelectSeq(metrics, Labelled)
    /\ pc' = "screener"
    /\ UNCHANGED <<err, raw, data, spy_data, stock_data, metrics, printed>>

\* lines 136-137
Screener ==
    /\ pc = "screener"
    /\ printed' \in Screened(metrics)
    /\ pc' = "done"
    /\ UNCHANGED <<err, raw, data, spy_data, stock_data, metrics,
                   bullish_count, bearish_count, marker_colors, annotated>>

Next == Download \/ Clean \/ Split \/ Metrics \/ Charts \/ Screener

Spec == Init /\ [][Next]_vars

----------------------------------------------------------------------------
(* The charts and the screener alone, over Metrics Tables of any content *)

\* Records of a Metrics Table around the screener's thresholds: trend distance
\* undefined, on the floor and above it; volatility (squared) below the
\* ceiling and on it.
ScreenKinds ==
    { [d |-> NaN,  v |-> F(24 * 24)],
      [d |-> F(5), v |-> F(24 * 24)],
      [d |-> F(6), v |-> F(24 * 24)],
      [d |-> F(7), v |-> F(24 * 24)],
      [d |-> F(7), v |-> F(25 * 25)] }

InitScreener ==
    /\ pc = "charts"
    /\ err = "none"
    /\ raw = <<>>
    /\ data = <<>>
    /\ spy_data = <<>>
    /\ stock_data = <<>>
    /\ \E n \in 0..MaxRecs, k \in [1..MaxRecs -> ScreenKinds] :
          metrics = [i \in 1..n |-> [Ticker |-> source_tickers[i],
                                     Distance_SMA |-> k[i].d,
                                     Volatility |-> k[i].v,
                                     Beta |-> F(1)]]
    /\ bullish_count = 0
    /\ bearish_count = 0
    /\ marker_colors = <<>>
    /\ annotated = <<>>
    /\ printed = <<>>

NextScreener == Charts \/ Screener

SpecScreener == InitScreener /\ [][NextScreener]_vars

----------------------------------------------------------------------------
(* Properties *)

\* data holds the cleaned table
Cleaned == pc \notin {"download", "clean"}
\* metrics holds the Metrics Table
MetricsDone == pc \in {"charts", "screener", "done"}
\* the three panels are drawn
Charted == pc \in {"screener", "done"}

SymbolSet(t) == {t[i].sym : i \in 1..Len(t)}
Rows(t) == IF Len(t) = 0 THEN 0 ELSE Len(t[1].px)
\* the number of observations the download holds for symbol s
Obs(s) ==
    IF HasColumn(raw, s)
    THEN Cardinality({r \in 1..Rows(raw) : ~IsNaN(ColumnOf(raw, s)[r])})
    ELSE 0
Assets == TickerSet \ {"SPY"}
\* metrics.index
Index(m) == [i \in 1..Len(m) |-> m[i].Ticker]
IsConstant(s) == \A i \in 1..Len(s) : s[i] = s[1]

C2_MissingBenchmarkAborts ==
    (Cleaned /\ ~HasColumn(data, "SPY")) =>
        \/ pc = "split"
        \/ /\ pc = "aborted"
           /\ err = "KeyError"
           /\ metrics = <<>>
           /\ marker_colors = <<>>
           /\ annotated = <<>>
           /\ printed = <<>>
           /\ bullish_count = 0
           /\ bearish_count = 0

\* SPY was downloaded with a gap, dropped, and the run aborted although the
\* assets came complete
C2_Witness ==
    /\ pc = "aborted"
    /\ err = "KeyError"
    /\ HasColumn(raw, "SPY")
    /\ Len(data) = NAssets
    /\ Rows(raw) >= Window

\* C3: with a benchmark whose returns have zero variance no NaN and no
\* infinity is stored as a beta of the Metrics Table.
C3_ZeroVarianceBetaIsExplicit ==
    (MetricsDone /\ var(pct_change(spy_data)) = F(0)) =>
        \A i \in 1..Len(metrics) : IsFinite(metrics[i].Beta)

\* C4 as claimed: for a downloaded asset with fewer than 50 observations the
\* trend distance is undefined, the asset is never printed by the screener,
\* and the run does not abort (short of a missing benchmark) but computes the
\* other assets' metrics.
C4_ShortHistoryNeverAborts ==
    \A a \in Assets :
        (HasColumn(raw, a) /\ Obs(a) < Window) =>
            /\ MetricsDone =>
                  /\ \A i \in 1..Len(metrics) :
                        metrics[i].Ticker = a => IsNaN(metrics[i].Distance_SMA)
                  /\ Index(metrics) = Symbols(stock_data)
            /\ \A i \in 1..Len(printed) : printed[i].Ticker # a
            /\ pc = "aborted" => ~HasColumn(data, "SPY")

\* C4 as amended: the same for a downloaded table of at least one row.
C4_ShortHistoryExcluded ==
    \A a \in Assets :
        (HasColumn(raw, a) /\ Obs(a) < Window /\ Rows(raw) >= 1) =>
            /\ MetricsDone =>
                  /\ \A i \in 1..Len(metrics) :
                        metrics[i].Ticker = a =>
                           /\ IsNaN(metrics[i].Distance_SMA)
                           /\ \A f \in {-100, 0, TrendFloor} :
                                 ~FGt(metrics[i].Distance_SMA, F(f))
                  /\ Index(metrics) = Symbols(stock_data)
            /\ \A i \in 1..Len(printed) : printed[i].Ticker # a
            /\ pc = "aborted" => ~HasColumn(data, "SPY")

\* a run over 49 rows ended: an asset's trend is undefined, its volatility
\* and beta are computed, and nothing is printed
C4_Witness ==
    /\ pc = "done"
    /\ Rows(raw) = Window - 1
    /\ \E i \in 1..Len(metrics) :
          /\ Obs(metrics[i].Ticker) = Window - 1
          /\ IsNaN(metrics[i].Distance_SMA)
          /\ IsFinite(metrics[i].Volatility)
          /\ metrics[i].Volatility # F(0)
          /\ IsFinite(metrics[i].Beta)
    /\ printed = <<>>

\* C5: the listing has at most 5 records, each a record of the Metrics Table
\* with trend distance > 5 and volatility < 25, in non-increasing order of
\* trend distance, and no candidate left out has a greater trend distance
\* than a printed one; it is as long as the candidates allow.
C5_ScreenerTopFive ==
    pc = "done" =>
        LET cand == {k \in 1..Len(metrics) :
                        /\ FGt(metrics[k].Distance_SMA, F(TrendFloor))
                        /\ FLt(metrics[k].Volatility, F(VolCeiling * VolCeiling))}
        IN  /\ Len(printed) <= TopN
            /\ Len(printed) = IF Cardinality(cand) < TopN THEN Cardinality(cand) ELSE TopN
            /\ \A i \in 1..Len(printed) : \E k \in cand : metrics[k] = printed[i]
            /\ \A i, j \in 1..Len(printed) :
                  /\ i < j => ~FLt(printed[i].Distance_SMA, printed[j].Distance_SMA)
                  /\ i # j => printed[i].Ticker # printed[j].Ticker
            /\ \A k \in cand :
                  (\A i \in 1..Len(printed) : printed[i] # metrics[k]) =>
                      \A i \in 1..Len(printed) :
                          ~FGt(metrics[k].Distance_SMA, printed[i].Distance_SMA)

\* six candidates, the best of them not the first row: five printed, the 7
\* first and a 6 last, one candidate left out
C5_Witness ==
    /\ pc = "done"
    /\ Len(printed) = TopN
    /\ Len(metrics) = TopN + 1
    /\ Cardinality({k \in 1..Len(metrics) : Candidate(metrics[k])}) = TopN + 1
    /\ printed[1].Distance_SMA = F(7)
    /\ printed[TopN].Distance_SMA = F(6)
    /\ printed[1].Ticker # metrics[1].Ticker

\* C6: for an asset with at least 50 rows and a positive trailing average,
\* the trend distance is positive, negative or zero exactly as the last close
\* is above, below or on the average of the last 50 closes; a zero distance
\* is drawn red and not counted bullish.
C6_TrendSignMatchesCloseVsAverage ==
    MetricsDone =>
        \A i \in 1..Len(metrics) :
            LET px == ColumnOf(stock_data, metrics[i].Ticker)
                last_close == px[Len(px)]
                last_sma == FDiv(Sum(SubSeq(px, Len(px) - Window + 1, Len(px))), F(Window))
                d == metrics[i].Distance_SMA
            IN  (Len(px) >= Window /\ FGt(last_sma, F(0))) =>
                    /\ IsFinite(d)
                    /\ FGt(d, F(0)) <=> FGt(last_close, last_sma)
                    /\ FLt(d, F(0)) <=> FLt(last_close, last_sma)
                    /\ d = F(0) <=> last_close = last_sma
                    /\ (Charted /\ d = F(0)) =>
                          /\ marker_colors[i] = "#ff0000"
                          /\ bullish_count =
                                Cardinality({k \in 1..Len(metrics) :
                                                FGt(metrics[k].Distance_SMA, F(0))})
                          /\ bullish_count <= Len(metrics) - 1

\* after the charts: one asset on its average although its price moved (red),
\* another above its average (green)
C6_Witness ==
    /\ Charted
    /\ Rows(raw) = Window + 1
    /\ \E i, j \in 1..Len(metrics) :
          /\ metrics[i].Distance_SMA = F(0)
          /\ ~IsConstant(ColumnOf(stock_data, metrics[i].Ticker))
          /\ marker_colors[i] = "#ff0000"
          /\ FGt(metrics[j].Distance_SMA, F(0))
          /\ marker_colors[j] = "#00ff00"
    /\ bullish_count = 1
    /\ bearish_count = 1

\* C7: an asset whose closes equal the benchmark's on every row, the
\* benchmark's return variance being non-zero, has beta 1 and the volatility
\* of the benchmark series.
C7_BenchmarkTwinHasBetaOne ==
    MetricsDone =>
        \A i \in 1..Len(metrics) :
            (ColumnOf(stock_data, metrics[i].Ticker) = spy_data) =>
                LET spy_var == var(pct_change(spy_data))
                IN  (IsFinite(spy_var) /\ spy_var # F(0)) =>
                        /\ metrics[i].Beta = F(1)
                        /\ metrics[i].Volatility =
                              FMul(FMul(spy_var, F(TradingDays)), F(Percent * Percent))

\* a twin of a moving benchmark over a full window, with beta 1
C7_Witness ==
    /\ MetricsDone
    /\ Rows(raw) >= Window
    /\ ~IsConstant(spy_data)
    /\ \E i \in 1..Len(metrics) :
          /\ ColumnOf(stock_data, metrics[i].Ticker) = spy_data
          /\ metrics[i].Beta = F(1)
          /\ FGt(metrics[i].Volatility, F(0))

\* C8: with at least two returns the volatility (carried as its square) is
\* defined and not negative, 0 for a constant price series and positive when
\* the returns are not all equal.
C8_VolatilitySign ==
    MetricsDone =>
        \A i \in 1..Len(metrics) :
            LET px == ColumnOf(stock_data, metrics[i].Ticker)
                v == metrics[i].Volatility
            IN  Len(px) >= 3 =>
                    /\ IsFinite(v)
                    /\ ~FLt(v, F(0))
                    /\ IsConstant(px) => v = F(0)
                    /\ ~IsConstant(SubSeq(pct_change(px), 2, Len(px))) => FGt(v, F(0))

\* a constant asset with volatility 0 beside a moving one with a positive
\* volatility
C8_Witness ==
    /\ MetricsDone
    /\ Rows(raw) >= Window
    /\ \E i, j \in 1..Len(metrics) :
          /\ IsConstant(ColumnOf(stock_data, metrics[i].Ticker))
          /\ metrics[i].Volatility = F(0)
          /\ ~IsConstant(ColumnOf(stock_data, metrics[j].Ticker))
          /\ FGt(metrics[j].Volatility, F(0))

\* the Metrics Table lists, in the cleaned table's column order, exactly the
\* cleaned symbols other than SPY, each once, and each record holds the trend
\* distance, volatility and beta of its own symbol's column
AlignedWithData ==
    /\ Index(metrics) = SelectSeq(Symbols(data), LAMBDA t : t # "SPY")
    /\ \A i, j \in 1..Len(metrics) : i # j => metrics[i].Ticker # metrics[j].Ticker
    /\ \A i \in 1..Len(metrics) :
          /\ metrics[i].Ticker # "SPY"
          /\ HasColumn(data, metrics[i].Ticker)
          /\ \E j \in 1..Len(raw) : raw[j].sym = metrics[i].Ticker /\ Complete(raw[j])
          /\ LET px == ColumnOf(data, metrics[i].Ticker)
                 returns == pct_change(px)
                 spy_returns == pct_change(ColumnOf(data, "SPY"))
             IN  /\ metrics[i].Distance_SMA = dist_sma(px)
                 /\ metrics[i].Volatility = volatility(returns)
                 /\ metrics[i].Beta =
                       FDiv(cov(returns, spy_returns), var(spy_returns))

\* C9: the Metrics Table has one record per cleaned symbol other than SPY, in
\* column order, none twice, each with its own symbol's trend distance,
\* volatility and beta: so it is built, and neither it nor the cleaned table
\* changes afterwards.
C9_OneAlignedRecordPerAsset ==
    /\ [](pc = "charts" => AlignedWithData)
    /\ [][MetricsDone => (metrics' = metrics /\ data' = data)]_vars

\* every asset survives a full window, the first two with different trend
\* distance, volatility and beta
C9_Witness ==
    /\ MetricsDone
    /\ Rows(raw) >= Window
    /\ Len(metrics) = NAssets
    /\ metrics[1].Distance_SMA # metrics[2].Distance_SMA
    /\ metrics[1].Volatility # metrics[2].Volatility
    /\ metrics[1].Beta # metrics[2].Beta
    /\ IsFinite(metrics[1].Beta)
    /\ IsFinite(metrics[2].Beta)

\* C10: bullish_count + bearish_count is the number of records, neither is
\* negative, the bullish are the records of positive trend distance, and the
\* bearish are the records whose trend distance is defined and not positive.
C10_BreadthCountsDefinedTrendsOnly ==
    Charted =>
        /\ bullish_count + bearish_count = Len(metrics)
        /\ bullish_count >= 0
        /\ bearish_count >= 0
        /\ bullish_count =
              Cardinality({i \in 1..Len(metrics) : FGt(metrics[i].Distance_SMA, F(0))})
        /\ bearish_count =
              Cardinality({i \in 1..Len(metrics) :
                              /\ ~IsNaN(metrics[i].Distance_SMA)
                              /\ ~FGt(metrics[i].Distance_SMA, F(0))})

====
